---- MODULE Spec2Model ----
(***************************************************************************)
(* Alnylam Financial Analyzer: the filing store, the timeline built from   *)
(* it and the trend / ratio / R&D / cash analyses and the health score     *)
(* computed from the timeline.                                             *)
(*                                                                         *)
(* Numbers.  Metric values are Python floats parsed from digits, so they   *)
(* are never negative; they are modelled as naturals.  Every quotient the  *)
(* code forms is kept as an exact fraction <<n, d>> in lowest terms.  A    *)
(* zero divisor does not raise in numpy/pandas arithmetic: x/0 is +inf,    *)
(* -inf or NaN; these are the fractions <<1,0>>, <<-1,0>> and <<0,0>>.     *)
(* Rounding of binary floating point is not modelled: a computed value    *)
(* may differ from the fraction in its last bits (1000 -> 1200 grows by    *)
(* 19.999999999999996).  The numbers filings state here are such that       *)
(* every comparison the code makes has the outcome it has on the fraction. *)
(***************************************************************************)
EXTENDS Integers, Sequences, FiniteSets, TLC

VARIABLES store, result

vars == <<store, result>>

(* ------------------------------ bounds -------------------------------- *)

MaxFilings == 3

(* ------------------------ float arithmetic ---------------------------- *)

\* a missing value in a frame cell (None / NaN); real values are >= 0
None == -1

\* a filing date that did not parse; real dates are ranks >= 1
NaT == 0

Abs(x) == IF x < 0 THEN -x ELSE x

Sign(x) == IF x > 0 THEN 1 ELSE IF x < 0 THEN -1 ELSE 0

RECURSIVE Gcd(_, _)
Gcd(a, b) == IF b = 0 THEN a ELSE Gcd(b, a % b)

\* the float n/d: lowest terms, positive denominator; d = 0 gives inf / nan
Frac(n, d) ==
  IF d = 0 THEN <<Sign(n), 0>>
  ELSE LET g == Gcd(Abs(n), Abs(d))
       IN  <<Sign(d) * (n \div g), Abs(d) \div g>>

NaN == <<0, 0>>

IsNaN(q) == q = NaN

FloatOf(x) == <<x, 1>>

\* a / b on floats
FDiv(a, b) ==
  IF IsNaN(a) \/ IsNaN(b) THEN NaN
  ELSE IF a[2] = 0 /\ b[2] = 0 THEN NaN
  ELSE IF a[2] = 0 THEN <<a[1] * (IF b[1] < 0 THEN -1 ELSE 1), 0>>
  ELSE IF b[2] = 0 THEN <<0, 1>>
  ELSE Frac(a[1] * b[2], a[2] * b[1])

\* a * b on floats
FMul(a, b) ==
  IF IsNaN(a) \/ IsNaN(b) THEN NaN
  ELSE IF a[2] = 0 \/ b[2] = 0 THEN <<Sign(a[1]) * Sign(b[1]), 0>>
  ELSE Frac(a[1] * b[1], a[2] * b[2])

\* a + b on floats
FAdd(a, b) ==
  IF IsNaN(a) \/ IsNaN(b) THEN NaN
  ELSE IF a[2] = 0 /\ b[2] = 0 THEN (IF a[1] = b[1] THEN a ELSE NaN)
  ELSE IF a[2] = 0 THEN a
  ELSE IF b[2] = 0 THEN b
  ELSE Frac(a[1] * b[2] + b[1] * a[2], a[2] * b[2])

FSub(a, b) == FAdd(a, <<-b[1], b[2]>>)

\* a > b on floats: every comparison with NaN is False
FGt(a, b) ==
  IF IsNaN(a) \/ IsNaN(b) THEN FALSE
  ELSE IF a[2] = 0 /\ b[2] = 0 THEN a[1] > b[1]
  ELSE IF a[2] = 0 THEN a[1] > 0
  ELSE IF b[2] = 0 THEN b[1] < 0
  ELSE a[1] * b[2] > b[1] * a[2]

\* a >= b on floats
FGe(a, b) == (~IsNaN(a) /\ ~IsNaN(b)) /\ (a = b \/ FGt(a, b))

RECURSIVE FSum(_)
FSum(s) == IF s = <<>> THEN <<0, 1>> ELSE FAdd(Head(s), FSum(Tail(s)))

\* Series.mean(): NaN entries are skipped; the mean of nothing is NaN
Mean(s) ==
  LET kept == SelectSeq(s, LAMBDA q : ~IsNaN(q))
  IN  IF kept = <<>> THEN NaN ELSE FDiv(FSum(kept), FloatOf(Len(kept)))

(* --------------------------- the filing store ------------------------- *)

Metrics == <<"revenue", "net_income", "total_assets", "cash_and_equivalents",
             "research_development">>

MetricNames == {Metrics[i] : i \in 1..Len(Metrics)}

\* filing dates the remote source reports, oldest first
DateTable == <<"2021-02-15", "2022-02-15", "2023-02-15">>

\* pd.to_datetime(..., errors='coerce'): the date's rank, or NaT
to_datetime(s) ==
  IF \E i \in 1..Len(DateTable) : DateTable[i] = s
  THEN CHOOSE i \in 1..Len(DateTable) : DateTable[i] = s
  ELSE NaT

\* dict.get(key): the value, or None when the key is missing
Get(d, key) == IF key \in DOMAIN d THEN d[key] ELSE None

\* f"{form_type}_{filing_date}_{filing_id}.json"
FileName(rec) == <<rec.form_type, rec.filing_date, rec.filing_id>>

\* one row of the summary frame
SummaryRow(filing) ==
  [filing_id |-> filing.filing_id,
   form_type |-> filing.form_type,
   filing_date |-> filing.filing_date,
   revenue |-> Get(filing.financial_metrics, "revenue"),
   net_income |-> Get(filing.financial_metrics, "net_income"),
   total_assets |-> Get(filing.financial_metrics, "total_assets"),
   cash_and_equivalents |-> Get(filing.financial_metrics, "cash_and_equivalents"),
   research_development |-> Get(filing.financial_metrics, "research_development")]

\* os.listdir: the stored files in an arbitrary order
RECURSIVE Orders(_)
Orders(S) ==
  IF S = {} THEN {<<>>}
  ELSE UNION {{<<x>> \o p : p \in Orders(S \ {x})} : x \in S}

ListDir(st) == Orders(DOMAIN st)

\* the summary frame for one directory order
create_filings_summary(st, files) ==
  [i \in 1..Len(files) |-> SummaryRow(st[files[i]])]

\* sort_values('filing_date'): ascending, NaT last
DateSorted(df) ==
  \A i, j \in 1..Len(df) :
    i < j => \/ df[j].filing_date = NaT
             \/ /\ df[i].filing_date # NaT
                /\ df[i].filing_date <= df[j].filing_date

\* variant: rows whose filing date did not parse are dropped
get_financial_timeline_dated(st) ==
  LET frames == {create_filings_summary(st, files) : files \in ListDir(st)}
      coerced == {[i \in 1..Len(df) |->
                     [df[i] EXCEPT !.filing_date = to_datetime(@)]] :
                  df \in frames}
  IN  {SelectSeq(df, LAMBDA row : row.filing_date # NaT) :
       df \in {x \in coerced : DateSorted(x)}}

\* variant: the frame is returned in directory order
get_financial_timeline_unsorted(st) ==
  LET frames == {create_filings_summary(st, files) : files \in ListDir(st)}
  IN  {[i \in 1..Len(df) |-> [df[i] EXCEPT !.filing_date = to_datetime(@)]] :
       df \in frames}

\* variant: rows whose filing date did not parse come first
get_financial_timeline_nat_first(st) ==
  LET frames == {create_filings_summary(st, files) : files \in ListDir(st)}
      coerced == {[i \in 1..Len(df) |->
                     [df[i] EXCEPT !.filing_date = to_datetime(@)]] :
                  df \in frames}
  IN  {df \in coerced :
         \A i, j \in 1..Len(df) :
           i < j => df[i].filing_date <= df[j].filing_date}

\* the timelines the store can give: the directory order is arbitrary and
\* the sort keeps it among equal dates
get_financial_timeline(st) ==
  LET frames == {create_filings_summary(st, files) : files \in ListDir(st)}
      coerced == {[i \in 1..Len(df) |->
                     [df[i] EXCEPT !.filing_date = to_datetime(@)]] :
                  df \in frames}
  IN  {df \in coerced : DateSorted(df)}

\* df[cols].dropna(): the rows where every named column has a value
DropNa(df, cols) ==
  SelectSeq(df, LAMBDA row :
    row.filing_date # NaT /\ \A c \in cols : row[c] # None)

\* Series.pct_change() at position i > 1, times 100
PctChange(vals, i) ==
  FMul(FSub(FDiv(FloatOf(vals[i]), FloatOf(vals[i - 1])), FloatOf(1)),
       FloatOf(100))

(* ------------------------------ analyses ------------------------------ *)

EmptyDict == [x \in {} |-> 0]

\* variant: the growth rate is taken against the first value of the series
MetricTrendFromFirst(metric_data, metric) ==
  LET n == Len(metric_data)
      vals == [i \in 1..n |-> metric_data[i][metric]]
      growth_rate == PctChange(<<vals[1], vals[n]>>, 2)
  IN  [latest_value |-> vals[n],
       latest_date |-> metric_data[n].filing_date,
       latest_growth_rate |-> growth_rate,
       trend_direction |-> IF FGt(growth_rate, FloatOf(0))
                           THEN "increasing" ELSE "decreasing",
       data_points |-> n]

\* variant: a growth rate of zero counts as increasing
MetricTrendNonNegative(metric_data, metric) ==
  LET n == Len(metric_data)
      vals == [i \in 1..n |-> metric_data[i][metric]]
      growth_rate == PctChange(vals, n)
  IN  [latest_value |-> vals[n],
       latest_date |-> metric_data[n].filing_date,
       latest_growth_rate |-> growth_rate,
       trend_direction |-> IF FGe(growth_rate, FloatOf(0))
                           THEN "increasing" ELSE "decreasing",
       data_points |-> n]

\* the trend entry of one metric from its dated, valued rows
MetricTrend(metric_data, metric) ==
  LET n == Len(metric_data)
      vals == [i \in 1..n |-> metric_data[i][metric]]
      growth_rate == PctChange(vals, n)
  IN  [latest_value |-> vals[n],
       latest_date |-> metric_data[n].filing_date,
       latest_growth_rate |-> growth_rate,
       trend_direction |-> IF FGt(growth_rate, FloatOf(0))
                           THEN "increasing" ELSE "decreasing",
       data_points |-> n]

\* variant: a trend needs three data points
trends_from_three_points(financial_df) ==
  IF financial_df = <<>> THEN EmptyDict
  ELSE LET metric_data(m) == DropNa(financial_df, {m})
       IN  [m \in {x \in MetricNames : Len(metric_data(x)) > 2} |->
              MetricTrend(metric_data(m), m)]

get_financial_metrics_trends(financial_df) ==
  IF financial_df = <<>> THEN EmptyDict
  ELSE LET metric_data(m) == DropNa(financial_df, {m})
       IN  [m \in {x \in MetricNames : Len(metric_data(x)) > 1} |->
              MetricTrend(metric_data(m), m)]

\* a ratio of two cells of the latest row, when both are present
RatioKeys(latest_data) ==
  {k \in {"asset_turnover"} :
     latest_data.revenue # None /\ latest_data.total_assets # None}
  \cup {k \in {"net_profit_margin"} :
     latest_data.net_income # None /\ latest_data.revenue # None}
  \cup {k \in {"rd_intensity"} :
     latest_data.research_development # None /\ latest_data.revenue # None}
  \cup {k \in {"cash_ratio"} :
     latest_data.cash_and_equivalents # None /\ latest_data.total_assets # None}

\* variant: a ratio falls back to the latest row that has both operands
calculate_financial_ratios_fallback(financial_df) ==
  LET both(k) == SelectSeq(financial_df, LAMBDA row : k \in RatioKeys(row))
      keys == {k \in {"asset_turnover", "net_profit_margin", "rd_intensity",
                      "cash_ratio"} : both(k) # <<>>}
      row(k) == both(k)[Len(both(k))]
      num(k) == CASE k = "asset_turnover" -> row(k).revenue
                  [] k = "net_profit_margin" -> row(k).net_income
                  [] k = "rd_intensity" -> row(k).research_development
                  [] k = "cash_ratio" -> row(k).cash_and_equivalents
      den(k) == CASE k = "asset_turnover" -> row(k).total_assets
                  [] k = "net_profit_margin" -> row(k).revenue
                  [] k = "rd_intensity" -> row(k).revenue
                  [] k = "cash_ratio" -> row(k).total_assets
  IN  [k \in keys |-> FDiv(FloatOf(num(k)), FloatOf(den(k)))]

calculate_financial_ratios(financial_df) ==
  IF financial_df = <<>> THEN EmptyDict
  ELSE LET latest_data == financial_df[Len(financial_df)]
           num(k) == CASE k = "asset_turnover" -> latest_data.revenue
                       [] k = "net_profit_margin" -> latest_data.net_income
                       [] k = "rd_intensity" -> latest_data.research_development
                       [] k = "cash_ratio" -> latest_data.cash_and_equivalents
           den(k) == CASE k = "asset_turnover" -> latest_data.total_assets
                       [] k = "net_profit_margin" -> latest_data.revenue
                       [] k = "rd_intensity" -> latest_data.revenue
                       [] k = "cash_ratio" -> latest_data.total_assets
       IN  [k \in RatioKeys(latest_data) |->
              FDiv(FloatOf(num(k)), FloatOf(den(k)))]

\* variant: the R&D trend compares the latest value with the one before it
analyze_rd_investment_prev(financial_df) ==
  IF financial_df = <<>> THEN EmptyDict
  ELSE LET rd_data == DropNa(financial_df, {"research_development", "revenue"})
           n == Len(rd_data)
       IN  IF n = 0 THEN EmptyDict
           ELSE [total_rd_investment |->
                   FSum([i \in 1..n |-> FloatOf(rd_data[i].research_development)]),
                 rd_as_percentage_of_revenue |->
                   FMul(Mean([i \in 1..n |->
                                FDiv(FloatOf(rd_data[i].research_development),
                                     FloatOf(rd_data[i].revenue))]),
                        FloatOf(100)),
                 rd_trend |->
                   IF n > 1 /\ rd_data[n].research_development
                                 > rd_data[n - 1].research_development
                   THEN "increasing" ELSE "decreasing"]

analyze_rd_investment(financial_df) ==
  IF financial_df = <<>> THEN EmptyDict
  ELSE LET rd_data == DropNa(financial_df, {"research_development", "revenue"})
           n == Len(rd_data)
       IN  IF n = 0 THEN EmptyDict
           ELSE [total_rd_investment |->
                   FSum([i \in 1..n |-> FloatOf(rd_data[i].research_development)]),
                 rd_as_percentage_of_revenue |->
                   FMul(Mean([i \in 1..n |->
                                FDiv(FloatOf(rd_data[i].research_development),
                                     FloatOf(rd_data[i].revenue))]),
                        FloatOf(100)),
                 rd_trend |->
                   IF rd_data[n].research_development > rd_data[1].research_development
                   THEN "increasing" ELSE "decreasing"]

analyze_cash_management(financial_df) ==
  IF financial_df = <<>> THEN EmptyDict
  ELSE LET cash_data == DropNa(financial_df, {"cash_and_equivalents"})
           n == Len(cash_data)
       IN  IF n = 0 THEN EmptyDict
           ELSE [current_cash |-> cash_data[n].cash_and_equivalents,
                 cash_trend |->
                   IF cash_data[n].cash_and_equivalents > cash_data[1].cash_and_equivalents
                   THEN "increasing" ELSE "decreasing"]

(* ----------------------------- health score --------------------------- *)

\* a dict is truthy when it has a key
Truthy(d) == DOMAIN d # {}

\* variant: the thresholds are inclusive
revenue_growth_inclusive(trends) ==
  IF "revenue" \in DOMAIN trends
  THEN LET g == trends["revenue"].latest_growth_rate
       IN  IF FGe(g, FloatOf(20)) THEN 25
           ELSE IF FGe(g, FloatOf(10)) THEN 20
           ELSE IF FGe(g, FloatOf(0)) THEN 15
           ELSE 5
  ELSE 0

revenue_growth(trends) ==
  IF "revenue" \in DOMAIN trends
  THEN LET g == trends["revenue"].latest_growth_rate
       IN  IF FGt(g, FloatOf(20)) THEN 25
           ELSE IF FGt(g, FloatOf(10)) THEN 20
           ELSE IF FGt(g, FloatOf(0)) THEN 15
           ELSE 5
  ELSE 0

rd_investment(rd_analysis) ==
  IF Truthy(rd_analysis) /\ rd_analysis.rd_trend = "increasing" THEN 20
  ELSE IF Truthy(rd_analysis) THEN 15
  ELSE 0

\* variant: the thresholds are inclusive
cash_position_inclusive(cash_analysis) ==
  IF Truthy(cash_analysis)
  THEN IF cash_analysis.current_cash >= 1000 THEN 20
       ELSE IF cash_analysis.current_cash >= 500 THEN 15
       ELSE 10
  ELSE 0

cash_position(cash_analysis) ==
  IF Truthy(cash_analysis)
  THEN IF cash_analysis.current_cash > 1000 THEN 20
       ELSE IF cash_analysis.current_cash > 500 THEN 15
       ELSE 10
  ELSE 0

\* variant: the thresholds are inclusive
profitability_inclusive(ratios) ==
  IF "net_profit_margin" \in DOMAIN ratios
  THEN LET margin == ratios["net_profit_margin"]
       IN  IF FGe(margin, Frac(1, 10)) THEN 15
           ELSE IF FGe(margin, FloatOf(0)) THEN 10
           ELSE 5
  ELSE 0

profitability(ratios) ==
  IF "net_profit_margin" \in DOMAIN ratios
  THEN LET margin == ratios["net_profit_margin"]
       IN  IF FGt(margin, Frac(1, 10)) THEN 15
           ELSE IF FGt(margin, FloatOf(0)) THEN 10
           ELSE 5
  ELSE 0

asset_efficiency(ratios) ==
  IF "asset_turnover" \in DOMAIN ratios
  THEN LET turnover == ratios["asset_turnover"]
       IN  IF FGt(turnover, Frac(5, 10)) THEN 10
           ELSE IF FGt(turnover, Frac(3, 10)) THEN 7
           ELSE 5
  ELSE 0

\* variant: no R&D analysis scores nothing, as in the other components
rd_intensity_zero_branch(rd_analysis) ==
  IF ~Truthy(rd_analysis) THEN 0
  ELSE IF FGt(rd_analysis.rd_as_percentage_of_revenue, FloatOf(20)) THEN 10
  ELSE IF FGt(rd_analysis.rd_as_percentage_of_revenue, FloatOf(10)) THEN 7
  ELSE 5

rd_intensity(rd_analysis) ==
  LET pct == IF Truthy(rd_analysis)
             THEN rd_analysis.rd_as_percentage_of_revenue ELSE FloatOf(0)
  IN  IF Truthy(rd_analysis) /\ FGt(pct, FloatOf(20)) THEN 10
      ELSE IF Truthy(rd_analysis) /\ FGt(pct, FloatOf(10)) THEN 7
      ELSE 5

\* variant: the grade thresholds are exclusive
get_grade_exclusive(percentage) ==
  IF FGt(percentage, FloatOf(90)) THEN "A"
  ELSE IF FGt(percentage, FloatOf(80)) THEN "B"
  ELSE IF FGt(percentage, FloatOf(70)) THEN "C"
  ELSE IF FGt(percentage, FloatOf(60)) THEN "D"
  ELSE "F"

_get_grade(percentage) ==
  IF FGe(percentage, FloatOf(90)) THEN "A"
  ELSE IF FGe(percentage, FloatOf(80)) THEN "B"
  ELSE IF FGe(percentage, FloatOf(70)) THEN "C"
  ELSE IF FGe(percentage, FloatOf(60)) THEN "D"
  ELSE "F"

ComponentNames == <<"revenue_growth", "rd_investment", "cash_position",
                    "profitability", "asset_efficiency", "rd_intensity">>

score_components(financial_df) ==
  LET trends == get_financial_metrics_trends(financial_df)
      ratios == calculate_financial_ratios(financial_df)
      rd_analysis == analyze_rd_investment(financial_df)
      cash_analysis == analyze_cash_management(financial_df)
  IN  [revenue_growth |-> revenue_growth(trends),
       rd_investment |-> rd_investment(rd_analysis),
       cash_position |-> cash_position(cash_analysis),
       profitability |-> profitability(ratios),
       asset_efficiency |-> asset_efficiency(ratios),
       rd_intensity |-> rd_intensity(rd_analysis)]

\* variant: the last component is left out of the total
health_score_without_last(financial_df) ==
  LET components == score_components(financial_df)
      total_score == components.revenue_growth + components.rd_investment
                     + components.cash_position + components.profitability
                     + components.asset_efficiency
      max_score == 25 + 20 + 20 + 15 + 10 + 10
      pct == FMul(FDiv(FloatOf(total_score), FloatOf(max_score)), FloatOf(100))
  IN  [total_score |-> total_score,
       max_possible_score |-> max_score,
       percentage |-> IF max_score > 0 THEN pct ELSE FloatOf(0),
       grade |-> IF max_score > 0 THEN _get_grade(pct) ELSE "F",
       components |-> components]

get_financial_health_score(financial_df) ==
  LET components == score_components(financial_df)
      total_score == components.revenue_growth + components.rd_investment
                     + components.cash_position + components.profitability
                     + components.asset_efficiency + components.rd_intensity
      max_score == 25 + 20 + 20 + 15 + 10 + 10
      pct == FMul(FDiv(FloatOf(total_score), FloatOf(max_score)), FloatOf(100))
  IN  [total_score |-> total_score,
       max_possible_score |-> max_score,
       percentage |-> IF max_score > 0 THEN pct ELSE FloatOf(0),
       grade |-> IF max_score > 0 THEN _get_grade(pct) ELSE "F",
       components |-> components]

get_data_summary(st) ==
  [total_filings |-> Cardinality(DOMAIN st),
   financial_metrics_available |->
     Cardinality({k \in DOMAIN st : Truthy(st[k].financial_metrics)})]

\* a frame column no stored filing has a value for holds None objects
ObjectColumn(financial_df, metric) ==
  \A i \in 1..Len(financial_df) : financial_df[i][metric] = None

\* the rows of one form type, as get_quarterly_performance ("10-Q") and
\* analyze_annual_performance ("10-K") select them
PerformanceRows(financial_df, form_type) ==
  SelectSeq(financial_df, LAMBDA row : row.form_type = form_type)

\* Series.diff() subtracts None from None (TypeError) on a column of None
\* objects as soon as the selection has two rows
PerformanceRaises(financial_df, form_type) ==
  /\ Len(PerformanceRows(financial_df, form_type)) > 1
  /\ \E m \in MetricNames : ObjectColumn(financial_df, m)

ReportKeys == {"company", "ticker", "analysis_date", "data_summary",
               "financial_trends", "financial_ratios", "rd_analysis",
               "cash_analysis", "financial_health_score",
               "quarterly_performance", "annual_performance"}

generate_financial_report(st, financial_df) ==
  IF \/ PerformanceRaises(financial_df, "10-Q")
     \/ PerformanceRaises(financial_df, "10-K")
  THEN [status |-> "raised", keys |-> {}]
  ELSE [status |-> "returned",
        keys |-> ReportKeys,
        data_summary |-> get_data_summary(st),
        financial_trends |-> get_financial_metrics_trends(financial_df),
        financial_ratios |-> calculate_financial_ratios(financial_df),
        rd_analysis |-> analyze_rd_investment(financial_df),
        cash_analysis |-> analyze_cash_management(financial_df),
        financial_health_score |-> get_financial_health_score(financial_df),
        quarterly_performance |->
          Len(PerformanceRows(financial_df, "10-Q")),
        annual_performance |->
          Len(PerformanceRows(financial_df, "10-K"))]

(* ------------------------- metric extraction -------------------------- *)

\* Filing text is a sequence of phrases <<label, number>> or <<label,
\* number, suffix>>: a lower-cased label immediately followed by the text
\* that [0-9,]+(?:\.[0-9]+)? captures and by million / thousand / billion,
\* which the pattern matches outside the captured group.
financial_patterns ==
  [revenue |-> <<"total revenue", "net revenue", "revenue">>,
   net_income |-> <<"net income", "net earnings">>,
   total_assets |-> <<"total assets">>,
   cash_and_equivalents |-> <<"cash and cash equivalents", "cash and equivalents">>,
   research_development |-> <<"research and development", "r&d">>]

\* the pattern's words end the label (the generic revenue pattern also
\* matches inside "total revenue" and "net revenue")
PatternMatches(pattern, label) ==
  \/ label = pattern
  \/ pattern = "revenue" /\ label \in {"total revenue", "net revenue"}

ValueError == -2

\* float(value_str.replace(',', '')) raises ValueError on the empty string,
\* which is what is left of a capture made of commas only
Parses(value_str) == value_str \notin {",", ",,"}

\* float(value_str.replace(',', '')); a value with a fractional part is
\* kept as the fraction <<n, d>>
ParseFloat(value_str) ==
  CASE value_str \in {"0"} -> 0
    [] value_str \in {"50"} -> 50
    [] value_str \in {"100"} -> 100
    [] value_str \in {"150"} -> 150
    [] value_str \in {"200"} -> 200
    [] value_str \in {"300"} -> 300
    [] value_str \in {"500"} -> 500
    [] value_str \in {"1000", "1,000"} -> 1000
    [] value_str \in {"1150", "1,150"} -> 1150
    [] value_str \in {"1200", "1,200"} -> 1200
    [] value_str \in {"1234.5", "1,234.5"} -> <<12345, 10>>
    [] value_str \in {"1300", "1,300"} -> 1300
    [] value_str \in {"1500", "1,500"} -> 1500
    [] value_str \in {"2000", "2,000"} -> 2000
    [] value_str \in {"4000", "4,000"} -> 4000
    [] OTHER -> ValueError

\* re.findall(pattern, content, re.IGNORECASE): the captured numbers
FindAll(pattern, content) ==
  LET hits == SelectSeq(content, LAMBDA ph : PatternMatches(pattern, ph[1]))
  IN  [i \in 1..Len(hits) |-> hits[i][2]]

\* variant: when the first match of a pattern does not parse, its later
\* matches are tried
RECURSIVE ExtractMetricAnyMatch(_, _, _)
ExtractMetricAnyMatch(patterns, i, content) ==
  IF i > Len(patterns) THEN <<>>
  ELSE LET matches == SelectSeq(FindAll(patterns[i], content), Parses)
       IN  IF matches # <<>>
           THEN <<ParseFloat(matches[1])>>
           ELSE ExtractMetricAnyMatch(patterns, i + 1, content)

\* variant: the match that comes first in the text wins, whatever its pattern
ExtractMetricTextOrder(patterns, i, content) ==
  LET hits == SelectSeq(content, LAMBDA ph :
                \E j \in i..Len(patterns) : PatternMatches(patterns[j], ph[1]))
  IN  IF hits # <<>> /\ Parses(hits[1][2])
      THEN <<ParseFloat(hits[1][2])>> ELSE <<>>

\* the value of one metric, <<value>>: the first pattern, from position i
\* on, whose first match parses; <<>> when there is none
RECURSIVE ExtractMetric(_, _, _)
ExtractMetric(patterns, i, content) ==
  IF i > Len(patterns) THEN <<>>
  ELSE LET matches == FindAll(patterns[i], content)
       IN  IF matches # <<>> /\ Parses(matches[1])
           THEN <<ParseFloat(matches[1])>>
           ELSE ExtractMetric(patterns, i + 1, content)

_extract_financial_metrics(content) ==
  [m \in {x \in MetricNames :
            ExtractMetric(financial_patterns[x], 1, content) # <<>>} |->
     ExtractMetric(financial_patterns[m], 1, content)[1]]

(* ----------------------- business information ------------------------- *)

\* A text also holds phrases <<trigger, snippet>>: a trigger phrase followed
\* by the run of 50 to 200 characters without a full stop that
\* ([^.]{50,200}) captures.
pipeline_patterns == <<"clinical trial", "pipeline", "drug development">>

partnership_patterns == <<"collaboration", "partnership", "licensing">>

patent_patterns == <<"patent", "intellectual property">>

\* for pattern in patterns: list.extend(re.findall(...)[:3]), from pattern i
RECURSIVE ExtendMatches(_, _, _)
ExtendMatches(patterns, i, content) ==
  IF i > Len(patterns) THEN <<>>
  ELSE LET matches == FindAll(patterns[i], content)
           first3 == SubSeq(matches, 1, IF Len(matches) < 3 THEN Len(matches) ELSE 3)
       IN  first3 \o ExtendMatches(patterns, i + 1, content)

_extract_business_info(content) ==
  [pipeline_info |-> ExtendMatches(pipeline_patterns, 1, content),
   partnerships |-> ExtendMatches(partnership_patterns, 1, content),
   patents |-> ExtendMatches(patent_patterns, 1, content)]

(* ----------------------- fetching and storing ------------------------- *)

\* dict.get(key, default) on a filing of the listing
GetOr(d, key, default) == IF key \in DOMAIN d THEN d[key] ELSE default

\* variant: a metric the text does not state is stored with the value 0
parse_filing_zero_default(filing_data) ==
  LET content == IF "content" \in DOMAIN filing_data
                 THEN filing_data["content"] ELSE <<>>
      found == _extract_financial_metrics(content)
      info == _extract_business_info(content)
  IN  [filing_id |-> GetOr(filing_data, "id", ""),
       form_type |-> GetOr(filing_data, "formType", ""),
       filing_date |-> GetOr(filing_data, "filingDate", ""),
       content |-> content,
       financial_metrics |->
         [m \in MetricNames |-> IF m \in DOMAIN found THEN found[m] ELSE 0],
       pipeline_info |-> info.pipeline_info,
       partnerships |-> info.partnerships,
       patents |-> info.patents]

parse_filing(filing_data) ==
  LET has_content == "content" \in DOMAIN filing_data
      info == IF has_content THEN _extract_business_info(filing_data["content"])
              ELSE [pipeline_info |-> <<>>, partnerships |-> <<>>, patents |-> <<>>]
  IN  [filing_id |-> GetOr(filing_data, "id", ""),
       form_type |-> GetOr(filing_data, "formType", ""),
       filing_date |-> GetOr(filing_data, "filingDate", ""),
       content |-> IF has_content THEN filing_data["content"] ELSE <<>>,
       financial_metrics |-> IF has_content
                             THEN _extract_financial_metrics(filing_data["content"])
                             ELSE EmptyDict,
       pipeline_info |-> info.pipeline_info,
       partnerships |-> info.partnerships,
       patents |-> info.patents]

\* the file of a record is written, replacing a file of the same name
save_parsed_filing(st, parsed_data) ==
  [k \in DOMAIN st \cup {FileName(parsed_data)} |->
     IF k = FileName(parsed_data) THEN parsed_data ELSE st[k]]

\* the characters of the strings that make up file names
Chars(s) ==
  CASE s = "10-K" -> <<"1", "0", "-", "K">>
    [] s = "10-Q" -> <<"1", "0", "-", "Q">>
    [] s = "10-K/A" -> <<"1", "0", "-", "K", "/", "A">>
    [] s = "2021-02-15" -> <<"2", "0", "2", "1", "-", "0", "2", "-", "1", "5">>
    [] s = "2022-02-15" -> <<"2", "0", "2", "2", "-", "0", "2", "-", "1", "5">>
    [] s = "2023-02-15" -> <<"2", "0", "2", "3", "-", "0", "2", "-", "1", "5">>
    [] s = "2020-01-01" -> <<"2", "0", "2", "0", "-", "0", "1", "-", "0", "1">>
    [] s = "2024-01-01" -> <<"2", "0", "2", "4", "-", "0", "1", "-", "0", "1">>
    [] s = "" -> <<>>
    [] s = "a" -> <<"a">>
    [] s = "a1" -> <<"a", "1">>
    [] s = "a2" -> <<"a", "2">>
    [] s = "filing_0" -> <<"f", "i", "l", "i", "n", "g", "_", "0">>
    [] s = "filing_1" -> <<"f", "i", "l", "i", "n", "g", "_", "1">>
    [] s = "filing_2" -> <<"f", "i", "l", "i", "n", "g", "_", "2">>
    [] s = "filing_3" -> <<"f", "i", "l", "i", "n", "g", "_", "3">>
    [] s = "_" -> <<"_">>
    [] s = ".json" -> <<".", "j", "s", "o", "n">>

FileNameChars(k) ==
  Chars(k[1]) \o Chars("_") \o Chars(k[2]) \o Chars("_") \o Chars(k[3])
  \o Chars(".json")

\* Python's  a in b  on strings
Contains(b, a) ==
  \E i \in 0..(Len(b) - Len(a)) : \A j \in 1..Len(a) : b[i + j] = a[j]

\* variant: the identifier is compared with the whole file name
_is_filing_stored_whole_name(st, filing_id) ==
  \E filename \in DOMAIN st : FileNameChars(filename) = Chars(filing_id)

_is_filing_stored(st, filing_id) ==
  \E filename \in DOMAIN st : Contains(FileNameChars(filename), Chars(filing_id))

\* f'filing_{i}'
FilingIndexName(i) ==
  CASE i = 0 -> "filing_0" [] i = 1 -> "filing_1" [] i = 2 -> "filing_2"
    [] OTHER -> "filing_3"

\* requests.get(filing_url): the document, or "" when the request fails;
\* a URL is modelled by the document it serves
get_filing_content(filing_url, ok) == IF ok THEN filing_url ELSE <<>>

\* open(filepath, 'w') raises when the file name has a path separator: the
\* directory it names does not exist
SaveRaises(parsed_data) ==
  Contains(FileNameChars(FileName(parsed_data)), <<"/">>)

\* the filing as it is parsed: with the content fetched from its URL when
\* the listing gives none
WithContent(filing, ok) ==
  IF "content" \notin DOMAIN filing /\ "filingUrl" \in DOMAIN filing
  THEN [k \in DOMAIN filing \cup {"content"} |->
          IF k = "content" THEN get_filing_content(filing["filingUrl"], ok)
          ELSE filing[k]]
  ELSE filing

\* variant: the loop ends at the first filing whose processing raises
RECURSIVE StoreLoopAbort(_, _, _, _, _)
StoreLoopAbort(filings, i, force_refresh, net, acc) ==
  IF i > Len(filings) THEN acc
  ELSE LET filing == filings[i]
           filing_id == GetOr(filing, "id", FilingIndexName(i - 1))
           parsed_filing == parse_filing(WithContent(filing, net[i]))
       IN  IF ~force_refresh /\ _is_filing_stored(acc.store, filing_id)
           THEN StoreLoopAbort(filings, i + 1, force_refresh, net, acc)
           ELSE IF SaveRaises(parsed_filing)
           THEN acc
           ELSE StoreLoopAbort(filings, i + 1, force_refresh, net,
                  [store |-> save_parsed_filing(acc.store, parsed_filing),
                   stored_filings |-> Append(acc.stored_filings, parsed_filing)])

\* the loop of fetch_and_store_filings from listing position i
\* (acc.store: the directory, acc.stored_filings: the list returned)
RECURSIVE StoreLoop(_, _, _, _, _)
StoreLoop(filings, i, force_refresh, net, acc) ==
  IF i > Len(filings) THEN acc
  ELSE LET filing == filings[i]
           filing_id == GetOr(filing, "id", FilingIndexName(i - 1))
           parsed_filing == parse_filing(WithContent(filing, net[i]))
       IN  IF ~force_refresh /\ _is_filing_stored(acc.store, filing_id)
           THEN StoreLoop(filings, i + 1, force_refresh, net, acc)
           ELSE IF SaveRaises(parsed_filing)
           THEN StoreLoop(filings, i + 1, force_refresh, net, acc)
           ELSE StoreLoop(filings, i + 1, force_refresh, net,
                  [store |-> save_parsed_filing(acc.store, parsed_filing),
                   stored_filings |-> Append(acc.stored_filings, parsed_filing)])

fetch_and_store_filings(st, filings, force_refresh, net) ==
  IF filings = <<>> THEN [store |-> st, stored_filings |-> <<>>]
  ELSE StoreLoop(filings, 1, force_refresh, net,
                 [store |-> st, stored_filings |-> <<>>])

(* ------------------------- searching the texts ------------------------ *)

\* For the search a text is the sequence of its characters.
SUPPORTED_FILING_TYPES ==
  <<"10-K", "10-Q", "8-K", "DEF 14A", "S-1", "S-3", "424B">>

ContextWindow == 200

MaxContexts == 5

\* the records of the files, in directory order
get_all_parsed_filings(st, files) == [i \in 1..Len(files) |-> st[files[i]]]

\* str.lower()
Lower(text) ==
  [i \in 1..Len(text) |->
     CASE text[i] = "R" -> "r" [] text[i] = "N" -> "n" [] text[i] = "A" -> "a"
       [] OTHER -> text[i]]

\* \w: letters, digits and the underscore
IsWordChar(c) == c \notin {" ", "."}

\* \b at offset p: a word character on exactly one side
WordBoundary(text, p) ==
  LET before == p >= 1 /\ IsWordChar(text[p])
      after == p < Len(text) /\ IsWordChar(text[p + 1])
  IN  before # after

\* re.escape(search_text), between two \b when whole_words, matches at
\* offset p
MatchAt(text, search_text, whole_words, p) ==
  /\ p + Len(search_text) <= Len(text)
  /\ \A j \in 1..Len(search_text) : text[p + j] = search_text[j]
  /\ whole_words => /\ WordBoundary(text, p)
                    /\ WordBoundary(text, p + Len(search_text))

\* re.finditer scans from the left and resumes at the end of each match
\* (the query is not empty: main.py asks again for an empty one)
RECURSIVE Scan(_, _, _)
Scan(starts, width, from) ==
  LET rest == {p \in starts : p >= from}
  IN  IF rest = {} THEN <<>>
      ELSE LET p == CHOOSE x \in rest : \A y \in rest : x <= y
           IN  <<p>> \o Scan(starts, width, p + width)

\* list(re.finditer(pattern, search_content, flags)): the match starts
\* (with re.IGNORECASE both the pattern and the text are already lower case)
FindIter(search_content, search_text, whole_words) ==
  Scan({p \in 0..Len(search_content) :
          MatchAt(search_content, search_text, whole_words, p)},
       Len(search_text), 0)

Max(a, b) == IF a > b THEN a ELSE b

Min(a, b) == IF a < b THEN a ELSE b

\* content[start:end]
Slice(content, start, end) == SubSeq(content, start + 1, end)

\* variant: a context for every match
ContextsOfAll(content, search_content, matches, width) ==
  [i \in 1..Len(matches) |->
     LET start == Max(0, matches[i] - ContextWindow)
         end == Min(Len(content), matches[i] + width + ContextWindow)
     IN  [position |-> matches[i],
          context |-> Slice(content, start, end),
          highlight |-> Slice(search_content, matches[i], matches[i] + width)]]

\* the contexts of matches[:5]
Contexts(content, search_content, matches, width) ==
  [i \in 1..Min(Len(matches), MaxContexts) |->
     LET start == Max(0, matches[i] - ContextWindow)
         end == Min(Len(content), matches[i] + width + ContextWindow)
     IN  [position |-> matches[i],
          context |-> Slice(content, start, end),
          highlight |-> Slice(search_content, matches[i], matches[i] + width)]]

\* ord() of the characters of a filing date
Ord(c) ==
  CASE c = "-" -> 45 [] c = "0" -> 48 [] c = "1" -> 49 [] c = "2" -> 50
    [] c = "3" -> 51 [] c = "4" -> 52 [] c = "5" -> 53 [] c = "6" -> 54
    [] c = "7" -> 55 [] c = "8" -> 56 [] c = "9" -> 57

\* Python's  a < b  on strings
StrLess(a, b) ==
  LET x == Chars(a)
      y == Chars(b)
  IN  \E i \in 1..Len(y) :
        /\ \A j \in 1..(i - 1) : j <= Len(x) /\ x[j] = y[j]
        /\ i > Len(x) \/ Ord(x[i]) < Ord(y[i])

\* variant: the key is (filing_date, match_count)
KeyGreaterDateFirst(a, b) ==
  \/ StrLess(b.filing_date, a.filing_date)
  \/ a.filing_date = b.filing_date /\ a.match_count > b.match_count

\* key(a) > key(b) for the key (match_count, filing_date)
KeyGreater(a, b) ==
  \/ a.match_count > b.match_count
  \/ a.match_count = b.match_count /\ StrLess(b.filing_date, a.filing_date)

\* list.sort(key=..., reverse=True) of results[:i]: descending, results of
\* equal keys keep their order
RECURSIVE SortReverse(_, _)
SortReverse(results, i) ==
  IF i = 0 THEN <<>>
  ELSE LET sorted == SortReverse(results, i - 1)
           n == Cardinality({k \in 1..Len(sorted) :
                               ~KeyGreater(results[i], sorted[k])})
       IN  SubSeq(sorted, 1, n) \o <<results[i]>>
           \o SubSeq(sorted, n + 1, Len(sorted))

\* the result of one filing, <<result>>, or <<>> when it is skipped
SearchFiling(filing, query, case_sensitive, whole_words) ==
  LET content == filing.content
      search_text == IF case_sensitive THEN query ELSE Lower(query)
      search_content == IF case_sensitive THEN content ELSE Lower(content)
      matches == FindIter(search_content, search_text, whole_words)
  IN  IF content = <<>> \/ matches = <<>> THEN <<>>
      ELSE <<[filing_id |-> filing.filing_id,
              form_type |-> filing.form_type,
              filing_date |-> filing.filing_date,
              match_count |-> Len(matches),
              contexts |-> Contexts(content, search_content, matches,
                                    Len(search_text))]>>

RECURSIVE SearchLoop(_, _, _, _, _)
SearchLoop(filtered_filings, i, query, case_sensitive, whole_words) ==
  IF i > Len(filtered_filings) THEN <<>>
  ELSE SearchFiling(filtered_filings[i], query, case_sensitive, whole_words)
       \o SearchLoop(filtered_filings, i + 1, query, case_sensitive, whole_words)

\* form_types = <<>> stands for None
search_filings_content(st, files, query, case_sensitive, whole_words, form_types) ==
  LET allowed == IF form_types = <<>> THEN SUPPORTED_FILING_TYPES ELSE form_types
      filings == get_all_parsed_filings(st, files)
      filtered_filings ==
        SelectSeq(filings, LAMBDA f :
                    \E i \in 1..Len(allowed) : allowed[i] = f.form_type)
      results == SearchLoop(filtered_filings, 1, query, case_sensitive, whole_words)
  IN  SortReverse(results, Len(results))

(* ------------------------------ actions ------------------------------- *)

NoResult == [call |-> "none"]

Forms == {"10-K", "10-Q"}

\* the filing dates of the listing: the dates of the table, or no date
DateStrs == {DateTable[i] : i \in 1..Len(DateTable)} \cup {""}

\* what the remote source lists: a filing with an identifier and a URL
RemoteFiling(id, form, date, doc) ==
  [id |-> id, formType |-> form, filingDate |-> date, filingUrl |-> doc]

\* a filing the remote source lists without an identifier (and, when two
\* such filings have the same form type and date, with its own document)
Unidentified(form, date, doc) ==
  [formType |-> form, filingDate |-> date, filingUrl |-> doc]

\* the filings the remote source has, in the order in which it lists them:
\* a form type with a path separator; an identifier with two form types
\* and dates; two filings without an identifier, of the same form type and
\* date
RemoteFilings ==
  <<RemoteFiling("a1", "10-K/A", DateTable[1], << <<"total revenue", "1,150">> >>),
    RemoteFiling("a2", "10-K", DateTable[2],
                 << <<"total revenue", "1,200">>, <<"net income", "100">>,
                    <<"pipeline", "snippet 1">>, <<"patent", "snippet 2">>,
                    <<"collaboration", "snippet 3">> >>),
    RemoteFiling("a2", "10-Q", "",
                 << <<"revenue", ",">>, <<"total assets", "2,000">> >>),
    Unidentified("10-K", DateTable[3], << <<"total revenue", "1,300">> >>),
    Unidentified("10-K", DateTable[3], << <<"net income", "200">> >>)>>

MaxListing == 2

\* the filings at the positions S of the remote source, in its order
Listed(S) ==
  LET n == Cardinality(S)
      at == CHOOSE f \in [1..n -> S] : \A i, j \in 1..n : i < j => f[i] < f[j]
  IN  [i \in 1..n |-> RemoteFilings[at[i]]]

\* sec_client.get_company_filings(...): at most MaxListing of the filings
\* the remote source has
Listings ==
  {Listed(S) : S \in {T \in SUBSET (1..Len(RemoteFilings)) :
                         Cardinality(T) <= MaxListing}}

\* one batch: list, fetch, parse and store
FetchAndStore ==
  \E filings \in Listings :
    \E net \in [1..Len(filings) -> BOOLEAN], force_refresh \in BOOLEAN :
      LET out == fetch_and_store_filings(store, filings, force_refresh, net)
      IN  /\ Cardinality(DOMAIN out.store) <= MaxFilings
          /\ store' = out.store
          /\ result' = [call |-> "fetch_and_store_filings",
                        filings |-> filings,
                        force_refresh |-> force_refresh,
                        value |-> out.stored_filings]

\* the identifiers the already-stored check is asked about: those of the
\* remote filings and one that is part of another
CheckedIds == {"a", "a1", "a2"}

\* the already-stored check on its own
IsFilingStored ==
  \E filing_id \in CheckedIds :
    /\ result' = [call |-> "_is_filing_stored",
                  filing_id |-> filing_id,
                  value |-> _is_filing_stored(store, filing_id)]
    /\ UNCHANGED store

GetTrends ==
  \E financial_df \in get_financial_timeline(store) :
    /\ result' = [call |-> "get_financial_metrics_trends",
                  value |-> get_financial_metrics_trends(financial_df)]
    /\ UNCHANGED store

GetHealthScore ==
  \E financial_df \in get_financial_timeline(store) :
    /\ result' = [call |-> "get_financial_health_score",
                  value |-> get_financial_health_score(financial_df)]
    /\ UNCHANGED store

GenerateReport ==
  \E financial_df \in get_financial_timeline(store) :
    /\ result' = [call |-> "generate_financial_report",
                  value |-> generate_financial_report(store, financial_df)]
    /\ UNCHANGED store

Init == store = EmptyDict /\ result = NoResult

Next ==
  FetchAndStore \/ IsFilingStored \/ GetTrends \/ GetHealthScore
  \/ GenerateReport

Spec == Init /\ [][Next]_vars

(* ------------- the analyses as functions of the store ----------------- *)

\* the text of a filing that states the given numbers ("" for a metric the
\* text does not mention)
Text(revenue, net_income, total_assets, cash, rd) ==
  LET all == << <<"total revenue", revenue>>,
                <<"net income", net_income>>,
                <<"total assets", total_assets>>,
                <<"cash and cash equivalents", cash>>,
                <<"research and development", rd>> >>
  IN  SelectSeq(all, LAMBDA ph : ph[2] # "")

\* families of filings: the form types and the texts the filings may have,
\* and the most filings of a store of the family (revenue history; form
\* types; cash; R&D with revenue; ratios, which read the last row only;
\* filings that state every metric)
Families ==
  {[forms |-> {"10-K"}, most |-> MaxFilings,
    docs |-> {Text(r, "", "", "", "") :
                r \in {"", "0", "1,000", "1,150", "1,200", "1,300"}}],
   [forms |-> Forms, most |-> MaxFilings,
    docs |-> {Text(r, "", "", "", "") : r \in {"1,000", "1,200"}}],
   [forms |-> {"10-K"}, most |-> MaxFilings,
    docs |-> {Text("", "", "", c, "") : c \in {"", "500", "1,000", "1,500"}}],
   [forms |-> {"10-K"}, most |-> MaxFilings,
    docs |-> {Text("", "", "", "", ""), Text("1,000", "", "", "", "50"),
              Text("1,000", "", "", "", "300"), Text("0", "", "", "", "50"),
              Text("0", "", "", "", "0"), Text("", "", "", "", "300"),
              Text("1,000", "", "", "", "")}],
   [forms |-> {"10-K"}, most |-> MaxFilings - 1,
    docs |-> {Text("", "", "", "", ""), Text("1,000", "200", "2,000", "", ""),
              Text("1,000", "100", "2,000", "", ""), Text("1,200", "0", "2,000", "", ""),
              Text("1,200", "", "4,000", "", ""), Text("1,000", "100", "4,000", "", ""),
              Text("0", "100", "0", "", ""), Text("0", "0", "", "", ""),
              Text("1,000", "", "0", "", "")}],
   [forms |-> {"10-K"}, most |-> MaxFilings,
    docs |-> {Text("1,000", "100", "2,000", "1,500", "150"),
              Text("1,200", "200", "2,000", "1,000", "300"),
              Text("1,300", "100", "4,000", "500", "150"),
              Text("1,000", "0", "4,000", "1,500", "300"),
              Text("1,150", "200", "2,000", "1,000", "150")}]}

\* a store of at most MaxFilings records, each the parse of a listed filing
InitScore ==
  \E fam \in Families :
    \E ks \in SUBSET (fam.forms \X DateStrs) :
      /\ Cardinality(ks) <= fam.most
      /\ \E c \in [ks -> fam.docs] :
           store = [k \in {<<x[1], x[2], "a1">> : x \in ks} |->
                      parse_filing([id |-> "a1", formType |-> k[1],
                                    filingDate |-> k[2],
                                    content |-> c[<<k[1], k[2]>>]])]
      /\ result = NoResult

NextScore == GetTrends \/ GetHealthScore \/ GenerateReport

SpecScore == InitScore /\ [][NextScore]_vars

(* ------------- the timeline and the ratios of a store ----------------- *)

GetRatios ==
  \E financial_df \in get_financial_timeline(store) :
    /\ result' = [call |-> "calculate_financial_ratios",
                  value |-> calculate_financial_ratios(financial_df)]
    /\ UNCHANGED store

GetTimeline ==
  \E financial_df \in get_financial_timeline(store) :
    /\ result' = [call |-> "get_financial_timeline", value |-> financial_df]
    /\ UNCHANGED store

NextFrame == GetRatios \/ GetTimeline

SpecFrame == InitScore /\ [][NextFrame]_vars

(* ---------------- every analysis of a store, on its own -------------- *)

GetRdAnalysis ==
  \E financial_df \in get_financial_timeline(store) :
    /\ result' = [call |-> "analyze_rd_investment",
                  value |-> analyze_rd_investment(financial_df)]
    /\ UNCHANGED store

GetCashAnalysis ==
  \E financial_df \in get_financial_timeline(store) :
    /\ result' = [call |-> "analyze_cash_management",
                  value |-> analyze_cash_management(financial_df)]
    /\ UNCHANGED store

NextAnalyses ==
  GetTimeline \/ GetRatios \/ GetTrends \/ GetRdAnalysis \/ GetCashAnalysis

SpecAnalyses == InitScore /\ [][NextAnalyses]_vars

(* --------------------- the extraction from a text --------------------- *)

MaxPhrases == 3

\* the phrases of the texts: the three revenue labels with numbers that
\* parse and captures that do not, a number followed by a unit word, and a
\* number with a fractional part
Phrases ==
  ({"total revenue", "net revenue", "revenue"} \X {"1,000", "1,200", ","})
  \cup {<<"total revenue", "1,000", "million">>,
        <<"revenue", "1,200", "billion">>,
        <<"total assets", "1,234.5">>}

\* the texts of at most MaxPhrases phrases
Contents == UNION {[1..n -> Phrases] : n \in 0..MaxPhrases}

Extract ==
  /\ result' = [call |-> "_extract_financial_metrics",
                content |-> result.content,
                value |-> _extract_financial_metrics(result.content)]
  /\ UNCHANGED store

InitExtract ==
  /\ store = EmptyDict
  /\ \E content \in Contents : result = [call |-> "none", content |-> content]

NextExtract == Extract

SpecExtract == InitExtract /\ [][NextExtract]_vars

(* ------------------------- the search of a store --------------------- *)

\* the characters of a text made of n copies of the text s
Repeat(s, n) == [i \in 1..(n * Len(s)) |-> s[((i - 1) % Len(s)) + 1]]

\* families of stored filings: the file names, the texts and the most
\* filings of a store. The first has short texts with three matches or one
\* match (in capitals), under file names that differ in the date or the
\* identifier only; the second has file names of several form types (a
\* filing listed without a form type is stored with '') and the texts:
\* none; a word far from both ends of the text; the word more often than
\* MaxContexts; the word inside a longer word; a text without it
SearchFamilies ==
  {[keys |-> ({"10-K"} \X {"2020-01-01", "2024-01-01", ""} \X {"a1"})
             \cup {<<"10-K", "2020-01-01", "a2">>},
    most |-> MaxFilings,
    docs |-> {<<"r", "n", "a", " ", "r", "n", "a", " ", "r", "n", "a">>,
              <<"R", "N", "A">>}],
   [keys |-> {<<"10-K", "2020-01-01", "a1">>, <<"10-Q", "2024-01-01", "a1">>,
              <<"", "2020-01-01", "a1">>},
    most |-> MaxFilings - 1,
    docs |-> {<<>>,
              Repeat(<<"x">>, ContextWindow + 10) \o <<"r", "n", "a">>
                \o Repeat(<<"x">>, ContextWindow + 10),
              Repeat(<<"r", "n", "a", ".">>, MaxContexts + 2),
              <<" ", "x", "r", "n", "a", "x">>,
              <<"x", "x", " ", "x">>}]}

\* the record of a filing whose text states no metric and no business
\* information
StoredText(k, content) ==
  [filing_id |-> k[3], form_type |-> k[1], filing_date |-> k[2],
   content |-> content, financial_metrics |-> EmptyDict,
   pipeline_info |-> <<>>, partnerships |-> <<>>, patents |-> <<>>]

Queries == {<<"r", "n", "a">>, <<"R", "N", "A">>}

\* form_types: not given, or the annual reports only
FormTypeLists == {<<>>, <<"10-K">>}

Search ==
  \E files \in ListDir(store), query \in Queries, form_types \in FormTypeLists,
     case_sensitive \in BOOLEAN, whole_words \in BOOLEAN :
    /\ result' = [call |-> "search_filings_content",
                  query |-> query,
                  case_sensitive |-> case_sensitive,
                  whole_words |-> whole_words,
                  form_types |-> form_types,
                  value |-> search_filings_content(store, files, query,
                              case_sensitive, whole_words, form_types)]
    /\ UNCHANGED store

InitSearch ==
  /\ \E fam \in SearchFamilies :
       \E ks \in SUBSET fam.keys :
         /\ Cardinality(ks) <= fam.most
         /\ \E c \in [ks -> fam.docs] :
              store = [k \in ks |-> StoredText(k, c[k])]
  /\ result = NoResult

NextSearch == Search

SpecSearch == InitSearch /\ [][NextSearch]_vars

(* ------------------------ properties: vocabulary ---------------------- *)

Called(f) == result.call = f

HealthCall == "get_financial_health_score"

TrendsCall == "get_financial_metrics_trends"

ReportCall == "generate_financial_report"

\* the date rank of a stored filing, NaT when its date does not parse
Rank(k) == to_datetime(store[k].filing_date)

\* the value a stored filing has for a metric, None when it has none
Value(k, m) == Get(store[k].financial_metrics, m)

Undated == {k \in DOMAIN store : Rank(k) = NaT}

\* the dated filings that have a value for every metric of ms
Having(ms) ==
  {k \in DOMAIN store : Rank(k) # NaT /\ \A m \in ms : Value(k, m) # None}

LatestOf(S) == {k \in S : \A j \in S : Rank(j) <= Rank(k)}

EarliestOf(S) == {k \in S : \A j \in S : Rank(k) <= Rank(j)}

\* the pairs <<previous, last>> that can be the two most recent filings of S
LastTwo(S) ==
  {p \in S \X S : p[2] \in LatestOf(S) /\ p[1] \in LatestOf(S \ {p[2]})}

\* the filings that can be the last row of the timeline
LastRows == IF Undated # {} THEN Undated ELSE LatestOf(DOMAIN store)

\* growth from prev to last, in percent, is strictly above pct (growth from
\* zero is above every bound when last > 0 and is no number when last = 0)
GrowthAbove(prev, last, pct) ==
  IF prev = 0 THEN last > 0 ELSE (last - prev) * 100 > pct * prev

\* num / den is strictly above a / b (b > 0); x / 0 is above every bound
\* when x > 0 and is no number when x = 0
QuotientAbove(num, den, a, b) ==
  IF den = 0 THEN num > 0 ELSE num * b > a * den

Components == result.value.components

(* ------------------------------ properties ---------------------------- *)

\* C1: with no filings stored, generate_financial_report returns, its data
\* summary reports total_filings = 0, and the health score has percentage 0
\* and grade "F".
C1_NoFilingsReport ==
  (DOMAIN store = {} /\ Called(ReportCall)) =>
    /\ result.value.status = "returned"
    /\ result.value.data_summary.total_filings = 0
    /\ result.value.financial_health_score.percentage = FloatOf(0)
    /\ result.value.financial_health_score.grade = "F"

\* C2: for every store, the health score has max_possible_score = 100, a
\* total_score that is the sum of the six component scores, and a percentage
\* equal to total_score / max_possible_score * 100, lying in [0, 100].
C2_ScoreTotals ==
  Called(HealthCall) =>
    LET h == result.value
        pct == h.percentage
    IN  /\ h.max_possible_score = 100
        /\ h.total_score =
             h.components.revenue_growth + h.components.rd_investment
             + h.components.cash_position + h.components.profitability
             + h.components.asset_efficiency + h.components.rd_intensity
        /\ pct[2] > 0
        /\ pct[1] * h.max_possible_score = h.total_score * 100 * pct[2]
        /\ 0 <= pct[1] /\ pct[1] <= 100 * pct[2]

C2_Witness ==
  /\ Called(HealthCall)
  /\ result.value.total_score = 90
  /\ \A c \in DOMAIN result.value.components : result.value.components[c] > 0

\* C3: the grade is a function of the percentage alone, with inclusive
\* lower thresholds 90 (A), 80 (B), 70 (C), 60 (D), F below 60, and the grade
\* of a health score agrees with the percentage of the same result.
C3_GradeOfPercentage ==
  Called(HealthCall) =>
    LET n == result.value.percentage[1]
        d == result.value.percentage[2]
        g == result.value.grade
    IN  /\ d > 0
        /\ (g = "A") <=> (n >= 90 * d)
        /\ (g = "B") <=> (n >= 80 * d /\ n < 90 * d)
        /\ (g = "C") <=> (n >= 70 * d /\ n < 80 * d)
        /\ (g = "D") <=> (n >= 60 * d /\ n < 70 * d)
        /\ (g = "F") <=> (n < 60 * d)

C3_Witness ==
  /\ Called(HealthCall)
  /\ result.value.percentage = FloatOf(90)
  /\ result.value.grade = "A"

\* the points the revenue_growth component has for a growth from prev to last
RevenueGrowthPoints(prev, last) ==
  IF GrowthAbove(prev, last, 20) THEN 25
  ELSE IF GrowthAbove(prev, last, 10) THEN 20
  ELSE IF GrowthAbove(prev, last, 0) THEN 15
  ELSE 5

\* two dated filings with revenue 1000 and, later, 1200, and no other
\* revenue point
RevenueScenario ==
  /\ Cardinality(Having({"revenue"})) = 2
  /\ \E p \in LastTwo(Having({"revenue"})) :
       /\ Rank(p[1]) < Rank(p[2])
       /\ Value(p[1], "revenue") = 1000
       /\ Value(p[2], "revenue") = 1200

\* C4: revenue_growth is 0 with fewer than 2 dated revenue points, otherwise
\* 25 / 20 / 15 / 5 as the growth between the two most recent points is above
\* 20 / above 10 / above 0 / otherwise; revenue 1000 then 1200 (exactly 20)
\* scores 20, not 25.
C4_RevenueGrowth ==
  Called(HealthCall) =>
    LET pts == Having({"revenue"})
        got == Components.revenue_growth
    IN  /\ Cardinality(pts) < 2 => got = 0
        /\ Cardinality(pts) >= 2 =>
             \E p \in LastTwo(pts) :
               got = RevenueGrowthPoints(Value(p[1], "revenue"),
                                         Value(p[2], "revenue"))
        /\ RevenueScenario => got = 20

C4_Witness ==
  Called(HealthCall) /\ RevenueScenario /\ Components.revenue_growth = 20

\* the points of the cash_position component for the store
CashPositionRule ==
  LET pts == Having({"cash_and_equivalents"})
      got == Components.cash_position
  IN  /\ pts = {} => got = 0
      /\ pts # {} =>
           \E k \in LatestOf(pts) :
             got = IF Value(k, "cash_and_equivalents") > 1000 THEN 20
                   ELSE IF Value(k, "cash_and_equivalents") > 500 THEN 15
                   ELSE 10

\* the store holds a single filing, with cash_and_equivalents = 1500
SingleCashFiling ==
  /\ Cardinality(DOMAIN store) = 1
  /\ \A k \in DOMAIN store : Value(k, "cash_and_equivalents") = 1500

\* C5 as stated: cash_position is 0 without a cash analysis, otherwise
\* 20 / 15 / 10 as the cash of the latest dated filing that has one is above
\* 1000 / above 500 / otherwise; a store holding a single filing with
\* cash_and_equivalents = 1500 yields 20.
C5_AsStated ==
  Called(HealthCall) =>
    /\ CashPositionRule
    /\ SingleCashFiling => Components.cash_position = 20

\* C5 amended: the same rule; a store holding a single filing with a
\* parseable filing date and cash_and_equivalents = 1500 yields 20.
C5_CashPosition ==
  Called(HealthCall) =>
    /\ CashPositionRule
    /\ (SingleCashFiling /\ Undated = {}) => Components.cash_position = 20

C5_Witness ==
  /\ Called(HealthCall)
  /\ SingleCashFiling /\ Undated = {}
  /\ Components.cash_position = 20

\* C6: rd_investment is 20 exactly when the R&D analysis is present and the
\* latest R&D value is strictly above the earliest (over dated filings with
\* both R&D and revenue), 15 when present but not increasing, 0 when absent.
C6_RdInvestment ==
  Called(HealthCall) =>
    LET pts == Having({"research_development", "revenue"})
        got == Components.rd_investment
    IN  /\ pts = {} => got = 0
        /\ pts # {} =>
             \E a \in LatestOf(pts), b \in EarliestOf(pts) :
               /\ Cardinality(pts) > 1 => a # b
               /\ got = IF Value(a, "research_development")
                           > Value(b, "research_development")
                        THEN 20 ELSE 15

\* three R&D points on three dates: the last is above the first and below
\* the one in between
C6_Witness ==
  /\ Called(HealthCall)
  /\ Components.rd_investment = 20
  /\ LET pts == Having({"research_development", "revenue"})
     IN  /\ Cardinality(pts) = 3
         /\ \E a \in pts, b \in pts, c \in pts :
              /\ Rank(a) < Rank(b) /\ Rank(b) < Rank(c)
              /\ Value(c, "research_development") < Value(b, "research_development")
              /\ Value(c, "research_development") > Value(a, "research_development")

\* the sum of R&D / revenue over the filings of S
RECURSIVE IntensitySum(_)
IntensitySum(S) ==
  IF S = {} THEN FloatOf(0)
  ELSE LET k == CHOOSE x \in S : TRUE
       IN  FAdd(Frac(Value(k, "research_development"), Value(k, "revenue")),
                IntensitySum(S \ {k}))

\* the mean R&D-to-revenue percentage is strictly above pct: 0 / 0 entries
\* do not count, an entry x / 0 with x > 0 puts the mean above every bound
MeanIntensityAbove(pct) ==
  LET pts == Having({"research_development", "revenue"})
      counted == {k \in pts : Value(k, "research_development") # 0
                               \/ Value(k, "revenue") # 0}
      sum == IntensitySum(counted)
  IN  /\ counted # {}
      /\ \/ sum[2] = 0
         \/ sum[1] * 100 > pct * Cardinality(counted) * sum[2]

\* C7: rd_intensity is 10 when the mean R&D-to-revenue percentage is above
\* 20, 7 when above 10, and 5 in every other case: it is one of 5, 7, 10 and
\* never 0, whatever the store holds.
C7_RdIntensity ==
  Called(HealthCall) =>
    LET got == Components.rd_intensity
    IN  /\ got \in {5, 7, 10}
        /\ got = IF MeanIntensityAbove(20) THEN 10
                 ELSE IF MeanIntensityAbove(10) THEN 7
                 ELSE 5

\* filings are stored, none gives an R&D analysis, and the component is 5
C7_Witness ==
  /\ Called(HealthCall)
  /\ DOMAIN store # {}
  /\ Having({"research_development", "revenue"}) = {}
  /\ Components.rd_intensity = 5
  /\ Components.rd_investment = 0

\* the points of the profitability component for the last row k
ProfitabilityPoints(k) ==
  IF Value(k, "net_income") = None \/ Value(k, "revenue") = None THEN 0
  ELSE IF QuotientAbove(Value(k, "net_income"), Value(k, "revenue"), 1, 10)
  THEN 15
  ELSE IF QuotientAbove(Value(k, "net_income"), Value(k, "revenue"), 0, 1)
  THEN 10
  ELSE 5

\* the points of the asset_efficiency component for the last row k
AssetEfficiencyPoints(k) ==
  IF Value(k, "revenue") = None \/ Value(k, "total_assets") = None THEN 0
  ELSE IF QuotientAbove(Value(k, "revenue"), Value(k, "total_assets"), 5, 10)
  THEN 10
  ELSE IF QuotientAbove(Value(k, "revenue"), Value(k, "total_assets"), 3, 10)
  THEN 7
  ELSE 5

\* C8: profitability is 15 / 10 / 5 as the net profit margin is above 0.10 /
\* above 0 / otherwise and 0 when the margin is absent; asset_efficiency is
\* 10 / 7 / 5 as the asset turnover is above 0.5 / above 0.3 / otherwise and
\* 0 when the turnover is absent.
C8_RatioComponents ==
  Called(HealthCall) =>
    /\ DOMAIN store = {} =>
         Components.profitability = 0 /\ Components.asset_efficiency = 0
    /\ DOMAIN store # {} =>
         \E k \in LastRows :
           /\ Components.profitability = ProfitabilityPoints(k)
           /\ Components.asset_efficiency = AssetEfficiencyPoints(k)

\* the last row has a margin of exactly 0.10 and a turnover of exactly 0.5
C8_Witness ==
  /\ Called(HealthCall)
  /\ Components.profitability = 10
  /\ Components.asset_efficiency = 7
  /\ \A k \in LastRows :
       /\ Value(k, "revenue") > 0
       /\ Value(k, "net_income") * 10 = Value(k, "revenue")
       /\ Value(k, "revenue") * 2 = Value(k, "total_assets")

\* C9: for each metric the latest growth rate is (v_last - v_prev) / v_prev
\* * 100 for the two most recent dated points that have a value, whatever
\* their form types; revenue 1000 and, later, 1200 gives a latest growth rate
\* of 20 and the direction "increasing".
C9_LatestGrowth ==
  Called(TrendsCall) =>
    /\ \A m \in DOMAIN result.value :
         \E p \in LastTwo(Having({m})) :
           LET rate == result.value[m].latest_growth_rate
           IN  /\ result.value[m].latest_value = Value(p[2], m)
               /\ Value(p[1], m) # 0 =>
                    /\ rate[2] > 0
                    /\ rate[1] * Value(p[1], m)
                         = (Value(p[2], m) - Value(p[1], m)) * 100 * rate[2]
    /\ RevenueScenario =>
         /\ "revenue" \in DOMAIN result.value
         /\ result.value["revenue"].latest_growth_rate = FloatOf(20)
         /\ result.value["revenue"].trend_direction = "increasing"

\* the scenario with filings of two form types, and a third, older revenue
\* point in another state
C9_Witness ==
  /\ Called(TrendsCall)
  /\ RevenueScenario
  /\ \E j, k \in Having({"revenue"}) : store[j].form_type # store[k].form_type
  /\ result.value["revenue"].latest_growth_rate = FloatOf(20)

\* C10: the trend direction is "increasing" if and only if the most recent
\* growth rate is strictly positive; a growth rate of exactly zero (two
\* equal consecutive values) or a negative one gives "decreasing".
C10_TrendDirection ==
  Called(TrendsCall) =>
    \A m \in DOMAIN result.value :
      LET t == result.value[m]
      IN  /\ t.trend_direction \in {"increasing", "decreasing"}
          /\ (t.trend_direction = "increasing") <=> (t.latest_growth_rate[1] > 0)
          /\ \E p \in LastTwo(Having({m})) :
               (Value(p[2], m) <= Value(p[1], m)) =>
                 t.trend_direction = "decreasing"

\* two equal, non-zero consecutive revenue values: growth 0, "decreasing"
C10_Witness ==
  /\ Called(TrendsCall)
  /\ "revenue" \in DOMAIN result.value
  /\ result.value["revenue"].latest_growth_rate = FloatOf(0)
  /\ result.value["revenue"].trend_direction = "decreasing"
  /\ \A p \in LastTwo(Having({"revenue"})) :
       Value(p[1], "revenue") = Value(p[2], "revenue") /\ Value(p[2], "revenue") > 0

\* C11: a metric is a key of the trends result if and only if at least 2
\* stored filings have both a value for it and a parseable filing date; with
\* 0 or 1 such filings it is omitted, and when present its data_points is
\* the number of such filings.
C11_TrendPresence ==
  Called(TrendsCall) =>
    /\ DOMAIN result.value \subseteq MetricNames
    /\ \A m \in MetricNames :
         /\ (m \in DOMAIN result.value) <=> (Cardinality(Having({m})) >= 2)
         /\ m \in DOMAIN result.value =>
              result.value[m].data_points = Cardinality(Having({m}))

\* revenue has exactly two points among three filings (the third is undated
\* or states no revenue) and a trend entry; another store has a single point
C11_Witness ==
  /\ Called(TrendsCall)
  /\ Cardinality(DOMAIN store) = 3
  /\ Cardinality(Having({"revenue"})) = 2
  /\ Undated # {}
  /\ \A k \in Undated : Value(k, "revenue") # None
  /\ "revenue" \in DOMAIN result.value
  /\ result.value["revenue"].data_points = 2

\* a float that is a number: neither infinite nor NaN
Finite(q) == q[2] # 0

\* C12: a zero divisor never produces an infinite or NaN value: the growth
\* rate of a metric whose prior value is 0 and a ratio whose denominator is
\* present but 0 are reported as undefined, not as inf or NaN.
C12_ZeroDivisor ==
  /\ Called(TrendsCall) =>
       \A m \in DOMAIN result.value : Finite(result.value[m].latest_growth_rate)
  /\ (Called(ReportCall) /\ result.value.status = "returned") =>
       \A k \in DOMAIN result.value.financial_ratios :
         Finite(result.value.financial_ratios[k])

RatiosCall == "calculate_financial_ratios"

\* the metrics a ratio divides: <<numerator, denominator>>
Operands(ratio) ==
  CASE ratio = "asset_turnover" -> <<"revenue", "total_assets">>
    [] ratio = "net_profit_margin" -> <<"net_income", "revenue">>
    [] ratio = "rd_intensity" -> <<"research_development", "revenue">>
    [] ratio = "cash_ratio" -> <<"cash_and_equivalents", "total_assets">>

RatioNames == {"asset_turnover", "net_profit_margin", "rd_intensity",
               "cash_ratio"}

\* filing k states both operands of the ratio
HasOperands(k, ratio) ==
  Value(k, Operands(ratio)[1]) # None /\ Value(k, Operands(ratio)[2]) # None

\* C13: each of the four ratios is a key of the ratio result if and only if
\* both of its operands are present on the last row of the timeline; there
\* is no fallback to earlier rows.
C13_RatioPresence ==
  Called(RatiosCall) =>
    /\ DOMAIN result.value \subseteq RatioNames
    /\ DOMAIN store = {} => DOMAIN result.value = {}
    /\ DOMAIN store # {} =>
         \E k \in LastRows :
           \A ratio \in RatioNames :
             (ratio \in DOMAIN result.value) <=> HasOperands(k, ratio)

\* the latest filing states no revenue, an earlier one states revenue, net
\* income and total assets, and the result has no ratio
C13_Witness ==
  /\ Called(RatiosCall)
  /\ DOMAIN result.value = {}
  /\ Undated = {}
  /\ \A k \in LastRows : Value(k, "revenue") = None
  /\ \E j \in DOMAIN store :
       HasOperands(j, "asset_turnover") /\ HasOperands(j, "net_profit_margin")

TimelineCall == "get_financial_timeline"

\* C14: for any stored filings in any storage order the rows of the
\* timeline are sorted non-decreasing by filing date, and the timeline is
\* empty when no filings are stored.
C14_TimelineSorted ==
  Called(TimelineCall) =>
    /\ DOMAIN store = {} => result.value = <<>>
    /\ \A i, j \in 1..Len(result.value) :
         (/\ i < j
          /\ result.value[i].filing_date # NaT
          /\ result.value[j].filing_date # NaT)
         => result.value[i].filing_date <= result.value[j].filing_date

\* three filings of three different dates, returned oldest first
C14_Witness ==
  /\ Called(TimelineCall)
  /\ Len(result.value) = 3
  /\ result.value[1].filing_date # NaT
  /\ result.value[1].filing_date < result.value[2].filing_date
  /\ result.value[2].filing_date < result.value[3].filing_date

\* row is the timeline row of the stored filing k
RowOf(row, k) ==
  /\ row.filing_id = store[k].filing_id
  /\ row.form_type = store[k].form_type
  /\ row.filing_date = Rank(k)
  /\ \A m \in MetricNames : row[m] = Value(k, m)

\* C15: the timeline has exactly one row per stored filing record; a record
\* whose filing date cannot be parsed is kept as a row that carries the
\* no-date marker and is never dropped.
C15_OneRowPerFiling ==
  Called(TimelineCall) =>
    /\ Len(result.value) = Cardinality(DOMAIN store)
    /\ \E files \in ListDir(store) :
         \A i \in 1..Len(files) : RowOf(result.value[i], files[i])
    /\ \A k \in Undated :
         \E i \in 1..Len(result.value) :
           result.value[i].filing_date = NaT /\ RowOf(result.value[i], k)

\* two dated filings and one whose date does not parse: three rows, one of
\* them with the no-date marker
C15_Witness ==
  /\ Called(TimelineCall)
  /\ Cardinality(DOMAIN store) = 3
  /\ Cardinality(Undated) = 1
  /\ Len(result.value) = 3
  /\ \E i \in 1..3 : result.value[i].filing_date = NaT

ExtractCall == "_extract_financial_metrics"

\* the labels a pattern of the metric's list matches, by position in the list
LabelsOf(m, j) ==
  CASE m = "revenue" /\ j = 1 -> {"total revenue"}
    [] m = "revenue" /\ j = 2 -> {"net revenue"}
    [] m = "revenue" /\ j = 3 -> {"total revenue", "net revenue", "revenue"}
    [] m = "net_income" /\ j = 1 -> {"net income"}
    [] m = "net_income" /\ j = 2 -> {"net earnings"}
    [] m = "total_assets" /\ j = 1 -> {"total assets"}
    [] m = "cash_and_equivalents" /\ j = 1 -> {"cash and cash equivalents"}
    [] m = "cash_and_equivalents" /\ j = 2 -> {"cash and equivalents"}
    [] m = "research_development" /\ j = 1 -> {"research and development"}
    [] m = "research_development" /\ j = 2 -> {"r&d"}
    [] OTHER -> {}

PatternCount(m) == IF m = "revenue" THEN 3 ELSE IF m = "total_assets" THEN 1 ELSE 2

\* the positions of the text where pattern j of metric m matches
MatchesOf(content, m, j) ==
  {i \in 1..Len(content) : content[i][1] \in LabelsOf(m, j)}

FirstOf(S) == CHOOSE i \in S : \A k \in S : i <= k

\* the captured text has a digit left once its commas are removed
HasDigits(text) == text \notin {",", ",,"}

\* pattern j of metric m has a match in the text and its first match parses
Yields(content, m, j) ==
  /\ MatchesOf(content, m, j) # {}
  /\ HasDigits(content[FirstOf(MatchesOf(content, m, j))][2])

\* C16: in the mapping the extractor returns a metric is absent (and never
\* present with a null value) exactly when no pattern of the metric yields a
\* first match that parses as a number; a pattern whose first match does not
\* parse is passed over and the next pattern is tried.
C16_MetricAbsent ==
  Called(ExtractCall) =>
    /\ DOMAIN result.value \subseteq MetricNames
    /\ \A m \in MetricNames :
         (m \notin DOMAIN result.value)
           <=> (\A j \in 1..PatternCount(m) : ~Yields(result.content, m, j))

\* the first pattern's first match is a capture of commas, a later match of
\* it parses, no other pattern's first match parses: revenue is absent
C16_Witness ==
  /\ Called(ExtractCall)
  /\ Len(result.content) = 2
  /\ result.content[1] = <<"total revenue", ",">>
  /\ result.content[2] = <<"total revenue", "1,000">>
  /\ "revenue" \notin DOMAIN result.value

\* the number a captured text denotes once its thousands separators are
\* removed (1234.5 is written as the fraction 12345 / 10)
NumberOf(text) ==
  CASE text = "1,000" -> 1000
    [] text = "1,200" -> 1200
    [] text = "1,234.5" -> <<12345, 10>>

\* the earliest pattern of the metric's list that has a match whose first
\* match parses
EarliestYielding(content, m) ==
  FirstOf({j \in 1..PatternCount(m) : Yields(content, m, j)})

\* C17: the extracted value of a metric comes from the earliest pattern of
\* its ordered list whose first match parses, and is that pattern's first
\* match in document order with the thousands separators removed ("1,234.5"
\* gives 1234.5); later patterns are not consulted even when their match
\* comes earlier in the text, and a trailing million / thousand / billion
\* does not scale the value.
C17_ExtractedValue ==
  Called(ExtractCall) =>
    \A m \in DOMAIN result.value :
      /\ \E j \in 1..PatternCount(m) : Yields(result.content, m, j)
      /\ LET j == EarliestYielding(result.content, m)
             i == FirstOf(MatchesOf(result.content, m, j))
         IN  result.value[m] = NumberOf(result.content[i][2])

\* "revenue 1,200 billion" comes before "total revenue 1,000 million": the
\* first pattern's match gives 1000; "total assets 1,234.5" gives 1234.5
C17_Witness ==
  /\ Called(ExtractCall)
  /\ result.content = << <<"revenue", "1,200", "billion">>,
                         <<"total revenue", "1,000", "million">>,
                         <<"total assets", "1,234.5">> >>
  /\ result.value = [revenue |-> 1000, total_assets |-> <<12345, 10>>]

FetchCall == "fetch_and_store_filings"

\* a record with empty content has no metric and no extract
EmptyContentEmptyExtracts(rec) ==
  rec.content = <<>> =>
    /\ rec.financial_metrics = EmptyDict
    /\ rec.pipeline_info = <<>>
    /\ rec.partnerships = <<>>
    /\ rec.patents = <<>>

\* C18: every filing record produced by parse_filing, and every record in
\* the store after any sequence of fetch-and-store batches, that has empty
\* content also has an empty financial-metrics mapping and empty pipeline,
\* partnership and patent lists.
C18_EmptyContent ==
  /\ \A k \in DOMAIN store : EmptyContentEmptyExtracts(store[k])
  /\ Called(FetchCall) =>
       \A i \in 1..Len(result.value) : EmptyContentEmptyExtracts(result.value[i])

\* one batch stored a filing whose content could not be fetched next to a
\* filing whose text gave metrics and extracts
C18_Witness ==
  /\ Called(FetchCall)
  /\ Len(result.value) = 2
  /\ \E k \in DOMAIN store :
       store[k].content = <<>> /\ store[k].financial_metrics = EmptyDict
  /\ \E k \in DOMAIN store :
       /\ store[k].content # <<>>
       /\ store[k].financial_metrics # EmptyDict
       /\ store[k].pipeline_info # <<>>
       /\ store[k].patents # <<>>

(* ------------------------------- C19 ---------------------------------- *)

SearchCall == "search_filings_content"

\* the calendar day of a filing date, as the number yyyymmdd
DayOf(date) ==
  CASE date = "2020-01-01" -> 20200101
    [] date = "2024-01-01" -> 20240101

\* C19: the results of a search are ordered by match count, descending, and
\* results of equal match count by filing date, descending (a filing with
\* more matches comes before a filing with fewer, whatever their dates).
C19_SearchOrder ==
  Called(SearchCall) =>
    \A i, j \in 1..Len(result.value) :
      i < j =>
        LET a == result.value[i]
            b == result.value[j]
        IN  \/ a.match_count > b.match_count
            \/ /\ a.match_count = b.match_count
               /\ (a.filing_date # "" /\ b.filing_date # "")
                    => DayOf(a.filing_date) >= DayOf(b.filing_date)

\* a filing of 2020 with three matches is listed before a filing of 2024
\* with one match, which is listed before a filing of 2020 with one match
C19_Witness ==
  /\ Called(SearchCall)
  /\ \E i, j, k \in 1..Len(result.value) :
       /\ i < j /\ j < k
       /\ result.value[i].match_count = 3
       /\ result.value[i].filing_date = "2020-01-01"
       /\ result.value[j].match_count = 1
       /\ result.value[j].filing_date = "2024-01-01"
       /\ result.value[k].match_count = 1
       /\ result.value[k].filing_date = "2020-01-01"

(* ------------------------------- C20 ---------------------------------- *)

\* a letter without its case
Folded(c) ==
  CASE c = "R" -> "r" [] c = "N" -> "n" [] c = "A" -> "a" [] OTHER -> c

Letters == {"r", "n", "a", "R", "N", "A", "x"}

\* the query of the call occurs at offset p of the text: the same
\* characters (the same letters, when the search ignores case), and as a
\* word of its own when whole words are asked for
Occurs(content, p) ==
  LET q == result.query
      last == p + Len(q)
  IN  /\ last <= Len(content)
      /\ \A j \in 1..Len(q) :
           IF result.case_sensitive THEN content[p + j] = q[j]
           ELSE Folded(content[p + j]) = Folded(q[j])
      /\ result.whole_words =>
           /\ p = 0 \/ content[p] \notin Letters
           /\ last = Len(content) \/ content[last + 1] \notin Letters

\* the form types the call allows
AllowedForms ==
  IF result.form_types = <<>>
  THEN {"10-K", "10-Q", "8-K", "DEF 14A", "S-1", "S-3", "424B"}
  ELSE {result.form_types[i] : i \in 1..Len(result.form_types)}

\* C20: every result of a search is that of a stored filing of an allowed
\* form type whose text is not empty and has at least one match; its match
\* count is the number of all matches; its contexts are those of the first
\* five matches in document order (fewer when there are fewer matches), and
\* each is the text from max(0, match start - 200) to min(length of the
\* text, match end + 200).
C20_SearchResults ==
  Called(SearchCall) =>
    \A n \in 1..Len(result.value) :
      LET r == result.value[n]
          k == <<r.form_type, r.filing_date, r.filing_id>>
      IN  /\ k \in DOMAIN store
          /\ r.form_type \in AllowedForms
          /\ LET content == store[k].content
                 occ == {p \in 0..Len(content) : Occurs(content, p)}
             IN  /\ content # <<>>
                 /\ r.match_count >= 1
                 /\ r.match_count = Cardinality(occ)
                 /\ Len(r.contexts) =
                      (IF r.match_count < 5 THEN r.match_count ELSE 5)
                 /\ \A i \in 1..Len(r.contexts) :
                      LET c == r.contexts[i]
                          from == IF c.position - 200 > 0
                                  THEN c.position - 200 ELSE 0
                          end == c.position + Len(result.query) + 200
                          to == IF end < Len(content) THEN end ELSE Len(content)
                      IN  /\ c.position \in occ
                          /\ Cardinality({p \in occ : p < c.position}) = i - 1
                          /\ c.context = [x \in 1..(to - from) |-> content[from + x]]

\* one result has more than five matches and five contexts, another has a
\* context that is cut at neither end of the text
C20_Witness ==
  /\ Called(SearchCall)
  /\ \E n \in 1..Len(result.value) :
       /\ result.value[n].match_count > 5
       /\ Len(result.value[n].contexts) = 5
  /\ \E n \in 1..Len(result.value) :
       \E i \in 1..Len(result.value[n].contexts) :
         LET c == result.value[n].contexts[i]
             content == store[<<result.value[n].form_type,
                                result.value[n].filing_date,
                                result.value[n].filing_id>>].content
         IN  /\ c.position > 200
             /\ c.position + Len(result.query) + 200 < Len(content)
             /\ Len(c.context) = 400 + Len(result.query)

(* ------------------------------- C25 ---------------------------------- *)

\* C25: for every store, generate_financial_report returns and the report
\* has exactly the eleven top-level keys.
C25_ReportShape ==
  Called(ReportCall) =>
    /\ result.value.status = "returned"
    /\ result.value.keys = ReportKeys
    /\ Cardinality(result.value.keys) = 11

(* ------------------------------- C26 ---------------------------------- *)

\* the health score a call returned: that of get_financial_health_score, or
\* the one inside a report (<<>> stands for no score)
ScoreOf(r) ==
  IF r.call = HealthCall THEN <<r.value>>
  ELSE IF r.call = ReportCall /\ r.value.status = "returned"
  THEN <<r.value.financial_health_score>>
  ELSE <<>>

\* C26: computing the health score or the report leaves the store as it
\* is, and two computations over the same store return the same total
\* score, components, percentage and grade.
C26_Deterministic ==
  [][/\ result'.call \in {HealthCall, ReportCall} => store' = store
     /\ (store' = store /\ ScoreOf(result) # <<>> /\ ScoreOf(result') # <<>>)
          => ScoreOf(result') = ScoreOf(result)]_vars

(* ------------------------------- C30 ---------------------------------- *)

RdCall == "analyze_rd_investment"

CashCall == "analyze_cash_management"

\* the sum of the R&D values of the filings of S
RECURSIVE RdSum(_)
RdSum(S) ==
  IF S = {} THEN 0
  ELSE LET k == CHOOSE x \in S : TRUE
       IN  Value(k, "research_development") + RdSum(S \ {k})

\* C30: the rows of the timeline without a parseable filing date come after
\* every dated row; so when the store holds a filing without a parseable
\* date the ratios are those of such a filing, not of the filing with the
\* greatest date; the trend, cash and R&D analyses count dated filings only.
C30_UndatedRows ==
  /\ Called(TimelineCall) =>
       \A i, j \in 1..Len(result.value) :
         (i < j /\ result.value[i].filing_date = NaT)
           => result.value[j].filing_date = NaT
  /\ (Called(RatiosCall) /\ Undated # {}) =>
       \E u \in Undated :
         /\ DOMAIN result.value = {ratio \in RatioNames : HasOperands(u, ratio)}
         /\ \A ratio \in DOMAIN result.value :
              result.value[ratio] = Frac(Value(u, Operands(ratio)[1]),
                                         Value(u, Operands(ratio)[2]))
  /\ Called(TrendsCall) =>
       /\ DOMAIN result.value =
            {m \in MetricNames : Cardinality(Having({m})) >= 2}
       /\ \A m \in DOMAIN result.value :
            /\ result.value[m].data_points = Cardinality(Having({m}))
            /\ \E k \in LatestOf(Having({m})) :
                 result.value[m].latest_value = Value(k, m)
  /\ Called(CashCall) =>
       LET dated == Having({"cash_and_equivalents"})
       IN  /\ dated = {} <=> result.value = EmptyDict
           /\ dated # {} =>
                \E k \in LatestOf(dated) :
                  result.value.current_cash = Value(k, "cash_and_equivalents")
  /\ Called(RdCall) =>
       LET dated == Having({"research_development", "revenue"})
       IN  /\ dated = {} <=> result.value = EmptyDict
           /\ dated # {} =>
                result.value.total_rd_investment = FloatOf(RdSum(dated))

\* the store holds a dated filing that states revenue, net income and total
\* assets and a filing without a date that states none: there is no ratio
C30_Witness ==
  /\ Called(RatiosCall)
  /\ Undated # {}
  /\ result.value = EmptyDict
  /\ \E j \in DOMAIN store :
       /\ Rank(j) # NaT
       /\ HasOperands(j, "asset_turnover")
       /\ HasOperands(j, "net_profit_margin")

(* ------------------------------- C21 ---------------------------------- *)

\* the file names of the records of a returned list
KeysOf(records) == {FileName(records[i]) : i \in 1..Len(records)}

\* the form type under which no file can be written
Unwritable == "10-K/A"

\* C21: when storing one listed filing raises, the batch still returns; the
\* filing is not in the returned list, the filings listed after it are
\* processed (with the refresh flag the returned list is the rest of the
\* listing, in order), and the returned list is exactly what the call
\* stored.
C21_FailureIsSkipped ==
  [][result'.call = FetchCall =>
       LET ret == result'.value
           rest == SelectSeq(result'.filings,
                             LAMBDA f : f.formType # Unwritable)
       IN  /\ \A i \in 1..Len(ret) : ret[i].form_type # Unwritable
           /\ \A k \in DOMAIN store' : store'[k].form_type # Unwritable
           /\ \A k \in DOMAIN store' :
                (k \notin DOMAIN store \/ store'[k] # store[k])
                  => k \in KeysOf(ret)
           /\ \A k \in KeysOf(ret) :
                /\ k \in DOMAIN store'
                /\ \E i \in 1..Len(ret) : FileName(ret[i]) = k /\ store'[k] = ret[i]
           /\ result'.force_refresh =>
                /\ Len(ret) = Len(rest)
                /\ \A i \in 1..Len(ret) :
                     /\ ret[i].form_type = rest[i].formType
                     /\ ret[i].filing_date = rest[i].filingDate
                     /\ ret[i].filing_id = GetOr(rest[i], "id", "")]_vars

\* the first listed filing could not be written, the second was stored and
\* is the only one returned
C21_Witness ==
  /\ Called(FetchCall)
  /\ Len(result.filings) = 2
  /\ result.filings[1].formType = Unwritable
  /\ Len(result.value) = 1
  /\ result.value[1].filing_id = GetOr(result.filings[2], "id", "")
  /\ FileName(result.value[1]) \in DOMAIN store

(* ------------------------------- C22 ---------------------------------- *)

\* C22: a listed filing whose content could not be retrieved is skipped: no
\* record is written for it and it is not in the returned list (every
\* document of the remote source has text, so a record without content is
\* that of a failed retrieval).
C22_FailedRetrievalSkipped ==
  /\ \A k \in DOMAIN store : store[k].content # <<>>
  /\ Called(FetchCall) =>
       \A i \in 1..Len(result.value) : result.value[i].content # <<>>

(* ------------------------------- C23 ---------------------------------- *)

\* the stored records of a filing identifier
RecordsOf(id) == {k \in DOMAIN store : store[k].filing_id = id}

\* the last position of the listing with the identifier
LastListed(filings, id) ==
  CHOOSE i \in 1..Len(filings) :
    /\ GetOr(filings[i], "id", "") = id
    /\ \A j \in 1..Len(filings) : GetOr(filings[j], "id", "") = id => j <= i

\* C23: after a batch with the refresh flag the store holds, for every
\* listed identifier (of a filing that can be written), exactly one record,
\* and it has the form type and the filing date the listing reports.
C23_RefreshOverwrites ==
  (Called(FetchCall) /\ result.force_refresh) =>
    \A i \in 1..Len(result.filings) :
      LET f == result.filings[i]
      IN  ("id" \in DOMAIN f /\ f.formType # Unwritable) =>
            /\ Cardinality(RecordsOf(f.id)) = 1
            /\ \A k \in RecordsOf(f.id) :
                 LET last == result.filings[LastListed(result.filings, f.id)]
                 IN  /\ store[k].form_type = last.formType
                     /\ store[k].filing_date = last.filingDate

(* ------------------------------- C24 ---------------------------------- *)

\* no identifier is listed twice and no listed filing is unwritable
DistinctFilings(filings) ==
  /\ \A i, j \in 1..Len(filings) :
       (i # j /\ "id" \in DOMAIN filings[i] /\ "id" \in DOMAIN filings[j])
         => filings[i].id # filings[j].id
  /\ \A i \in 1..Len(filings) : filings[i].formType # Unwritable

\* C24: a batch over an empty store, in which every listed filing is
\* processed without error, stores as many records as the listing has
\* filings, also when listed filings have no identifier.
C24_NoKeyCollision ==
  [][(DOMAIN store = {} /\ result'.call = FetchCall
      /\ DistinctFilings(result'.filings))
       => Cardinality(DOMAIN store') = Len(result'.filings)]_vars

(* ------------------------------- C27 ---------------------------------- *)

\* every filing of the listing carries an identifier
Identified(filings) == \A i \in 1..Len(filings) : "id" \in DOMAIN filings[i]

CheckCall == "_is_filing_stored"

\* C28: the already-stored check answers True exactly when the store holds
\* a record whose filing identifier equals the given one.
C28_ExactIdentifier ==
  Called(CheckCall) => (result.value <=> RecordsOf(result.filing_id) # {})

(* ------------------------------- C29 ---------------------------------- *)

\* the records stored with empty content, as a failed retrieval leaves them
EmptyRecords == {k \in DOMAIN store : store[k].content = <<>>}

====
